---------------------------- MODULE Spec2Model ----------------------------
(***************************************************************************)
(* MovieLog: the build-time snapshot step (fetch-cms-data.js), the         *)
(* allMovies collection of the Eleventy configuration, the serverless      *)
(* proxy (netlify/functions/movie.js) and the in-page cache (live.js).     *)
(***************************************************************************)
EXTENDS Integers, Sequences, FiniteSets, TLC

(***************************************************************************)
(* Bounds of the model.                                                    *)
(***************************************************************************)
MaxItems == 1
MaxRemote == 2
MaxLocal == 2
MaxCalls == 3
MaxRuns == 2
MaxInFlight == 2

(***************************************************************************)
(* JavaScript values.  A value carries its type tag; an object is a        *)
(* function from the keys it holds to values, so a key that is missing and *)
(* a key that holds undefined are different objects that read the same.    *)
(***************************************************************************)
Undef == [t |-> "undefined"]
Str(s) == [t |-> "string", s |-> s]
Num(n) == [t |-> "number", n |-> n]
Arr(a) == [t |-> "array", a |-> a]
Null == [t |-> "null"]

Truthy(v) ==
  CASE v.t = "undefined" -> FALSE
    [] v.t = "null" -> FALSE
    [] v.t = "string" -> v.s # ""
    [] v.t = "number" -> v.n # 0
    [] OTHER -> TRUE

\* a || b
Or(a, b) == IF Truthy(a) THEN a ELSE b

\* obj.k
Get(obj, k) == IF k \in DOMAIN obj THEN obj[k] ELSE Undef

\* JSON.stringify of an object drops the keys that hold undefined
DropUndefined(obj) ==
  [k \in {x \in DOMAIN obj : obj[x] # Undef} |-> obj[k]]


\* obj[k] = v
PutKey(obj, k, v) == [x \in DOMAIN obj \cup {k} |-> IF x = k THEN v ELSE obj[x]]

\* the outcome of an evaluation that may throw
Value(v) == [threw |-> FALSE, v |-> v]
Throw(msg) == [threw |-> TRUE, msg |-> msg]

VARIABLES
  env,          \* process.env: CONTENTFUL_SPACE_ID, CONTENTFUL_ACCESS_TOKEN
  cmsFile,      \* _data/cmsData.json
  spc,          \* where fetchContentfulData stands
  fetchCalls,   \* calls of fetch() made by fetchContentfulData
  snapLog,      \* console output of fetchContentfulData
  snapThrew,    \* fetchContentfulData ended by throwing (a rejected promise)
  snapInput,    \* what the network gave fetchContentfulData so far
  runs,         \* runs of fetch-cms-data.js, the current one included
  fileBefore    \* _data/cmsData.json as it was when the current run began

snapVars == <<env, cmsFile, spc, fetchCalls, snapLog, snapThrew, snapInput, runs, fileBefore>>

VARIABLES
  localFiles,   \* the templates collectionApi.getFilteredByGlob("movies/*.md") returns
  allMovies,    \* what the collection callback returned
  debugFile,    \* collection-debug.json (without its timestamp)
  mpc,          \* where the collection callback stands
  moviesList,   \* what the data function of _data/allMoviesList.js returned
  lpc           \* where that data function stands

mergeVars == <<cmsFile, localFiles, allMovies, debugFile, mpc, moviesList, lpc>>

VARIABLES
  event,          \* the request: queryStringParameters
  nodeEnv,        \* process.env.NODE_ENV
  ppc,            \* where the handler stands
  omdbQueries,    \* the title of every call of fetch(apiUrl) the handler made
  proxyInput,     \* what the lookup API gave the handler so far
  proxyResponse,  \* what the handler returned
  proxyThrew      \* the handler ended by throwing (a rejected promise)

proxyVars == <<event, nodeEnv, ppc, omdbQueries, proxyInput, proxyResponse, proxyThrew>>

VARIABLES
  titleAttr,       \* the data-movie-title attribute: Null when no element carries it
  liveMovieState,  \* the cache: title -> [data, cached]
  dom,             \* the five display regions
  pending,         \* the calls of loadLiveMovieData suspended at an await
  loadCalls,       \* calls of loadLiveMovieData so far
  refreshCalls,    \* calls of window.refreshMovieData so far
  netCalls,        \* calls of fetch(functionUrl) so far
  pageReady,       \* DOMContentLoaded has fired
  okRenders,       \* per title, what each load that fetched it successfully since the
                   \* last refresh of that title rendered
  lastInput,       \* what ended a call in the step just taken, if it came from the network:
                   \* the answer to fetch(), or the body of a non-OK answer
  issuedBeforeRefresh  \* the calls in flight that were issued before a refresh of their title

clientVars == <<titleAttr, liveMovieState, dom, pending, loadCalls, refreshCalls, netCalls,
                pageReady, okRenders, lastInput, issuedBeforeRefresh>>

\* what each program leaves alone
snapOnlyVars == <<env, spc, fetchCalls, snapLog, snapThrew, snapInput, runs, fileBefore>>
mergeOnlyVars == <<localFiles, allMovies, debugFile, mpc, moviesList, lpc>>
notSnapshot == <<mergeOnlyVars, proxyVars, clientVars>>
notMerge == <<snapOnlyVars, proxyVars, clientVars>>
notProxy == <<snapVars, mergeOnlyVars, clientVars>>
notClient == <<snapVars, mergeOnlyVars, proxyVars>>

vars == <<snapVars, mergeOnlyVars, proxyVars, clientVars>>

(***************************************************************************)
(* cmsData.json: absent, text that is no JSON, or a JSON document.         *)
(***************************************************************************)
NoFile == [kind |-> "absent"]
Garbage == [kind |-> "unparsable"]
JsonFile(doc) == [kind |-> "json", doc |-> doc]

\* JSON.stringify({ movies }, null, 2) as the document JSON.parse reads back
StringifyMovies(movies) ==
  JsonFile([movies |-> Arr([i \in 1..Len(movies) |-> DropUndefined(movies[i])])])

EmptySnapshot == StringifyMovies(<<>>)

PlaceholderPoster == "https://via.placeholder.com/300x450"

(***************************************************************************)
(* fetch-cms-data.js, the mapping of a parsed response.                    *)
(***************************************************************************)
\* asset.fields.file?.url || asset.fields.file?.file?.url
AssetFileUrl(asset) ==
  LET file == asset.fields.file
  IN  IF file = Undef THEN Undef
      ELSE Or(Get(file, "url"),
              IF Get(file, "file") = Undef THEN Undef
              ELSE Get(Get(file, "file"), "url"))

\* data.includes.Asset.forEach(asset => ... assets[asset.sys.id] = `https:${fileUrl}`)
RECURSIVE AssetTable(_, _)
AssetTable(list, assets) ==
  IF list = <<>> THEN assets
  ELSE LET asset == Head(list)
           fileUrl == AssetFileUrl(asset)
       IN  AssetTable(Tail(list),
             IF Truthy(fileUrl)
             THEN PutKey(assets, asset.sys.id, Str("https:" \o fileUrl.s))
             ELSE assets)

\* const assets = {}; if (data.includes?.Asset) { ... }
ExtractAssets(data) ==
  IF data.includes = Undef THEN <<>>
  ELSE IF ~Truthy(data.includes.Asset) THEN <<>>
  ELSE AssetTable(data.includes.Asset.a, <<>>)

\* Array.isArray(fields.poster) && fields.poster.length > 0
HasPoster(fields) ==
  /\ Get(fields, "poster").t = "array"
  /\ Len(Get(fields, "poster").a) > 0

\* let posterId = null; if (...) posterId = fields.poster[0].sys.id
PosterId(fields) ==
  IF HasPoster(fields) THEN Str(Get(fields, "poster").a[1].sys.id) ELSE Null

\* posterId ? assets[posterId] : "https://via.placeholder.com/300x450"
PosterOf(fields, assets) ==
  IF Truthy(PosterId(fields))
  THEN Get(assets, PosterId(fields).s)
  ELSE Str(PlaceholderPoster)

\* the callback of data.items.map
MapItem(item, assets) ==
  LET fields == item.fields
  IN  IF HasPoster(fields) /\ Get(fields, "poster").a[1].sys = Undef
      THEN Throw("TypeError: Cannot read properties of undefined (reading 'id')")
      ELSE Value(
        [id          |-> Str(item.sys.id),
         title       |-> Or(Get(fields, "title"), Str("Untitled")),
         director    |-> Or(Get(fields, "director"), Str("Unknown")),
         releaseYear |-> Or(Get(fields, "releaseYear"), Num(0)),
         genre       |-> Or(Get(fields, "genre"), Str("Unknown")),
         rating      |-> Or(Get(fields, "rating"), Num(0)),
         description |-> Or(Get(fields, "description"), Str("")),
         poster      |-> PosterOf(fields, assets),
         source      |-> Str("contentful"),
         createdAt   |-> Str(item.sys.createdAt),
         updatedAt   |-> Str(item.sys.updatedAt)])

\* const movies = data.items.map(...)
MapItems(data) ==
  IF data.items = Undef
  THEN Throw("TypeError: Cannot read properties of undefined (reading 'map')")
  ELSE LET assets == ExtractAssets(data)
           items == data.items.a
           mapped == [i \in 1..Len(items) |-> MapItem(items[i], assets)]
       IN  IF \E i \in 1..Len(items) : mapped[i].threw
           THEN mapped[CHOOSE i \in 1..Len(items) :
                         /\ mapped[i].threw
                         /\ \A j \in 1..(i - 1) : ~mapped[j].threw]
           ELSE Value([i \in 1..Len(items) |-> mapped[i].v])


(***************************************************************************)
(* What the content source can answer.                                     *)
(***************************************************************************)
CredValues == {Undef, Str(""), Str("k1")}

Statuses == {200, 304, 404, 500}

\* response.ok
ResponseOk(status) == status >= 200 /\ status <= 299

FetchOutcomes == {[rejected |-> TRUE, status |-> 0]}
                 \cup {[rejected |-> FALSE, status |-> s] : s \in Statuses}

Link(id) == [sys |-> [id |-> id]]
BrokenLink == [sys |-> Undef]

TitleValues == {Undef, Str(""), Str("Heat")}
YearValues == {Undef, Num(0), Num(1995)}
PosterValues == {Undef, Arr(<<>>), Arr(<<Link("a1")>>), Arr(<<Link("a2"), Link("a1")>>)}
OtherFields ==
  {[director |-> Undef, genre |-> Undef, rating |-> Undef, description |-> Undef],
   [director |-> Str("Mann"), genre |-> Str("Crime"), rating |-> Num(4),
    description |-> Str("A heist")]}

EntryFields(others) ==
  {DropUndefined([title |-> ti, releaseYear |-> y, poster |-> p,
                  director |-> others.director, genre |-> others.genre,
                  rating |-> others.rating, description |-> others.description]) :
     ti \in TitleValues, y \in YearValues, p \in PosterValues}

Entry(i, fields) ==
  [sys |-> [id |-> "e" \o ToString(i), createdAt |-> "2025-11-01", updatedAt |-> "2025-11-02"],
   fields |-> fields]

\* the entry lists of at most MaxItems entries, ids unique
EntryLists(others) ==
  UNION {{[i \in 1..n |-> Entry(i, f[i])] : f \in [1..n -> EntryFields(others)]} :
           n \in 0..MaxItems}

Asset(id, file) == [sys |-> [id |-> id], fields |-> [file |-> file]]
AssetLists ==
  {<<>>,
   <<Asset("a1", [url |-> Str("//images.ctfassets.net/a1.jpg")])>>,
   <<Asset("a1", [file |-> [url |-> Str("//images.ctfassets.net/a1.jpg")]])>>,
   <<Asset("a1", Undef)>>,
   <<Asset("a2", [url |-> Str("//images.ctfassets.net/a2.jpg")]),
     Asset("a1", [url |-> Str("//images.ctfassets.net/a1.jpg")])>>}
IncludesValues == {Undef} \cup {[t |-> "object", Asset |-> Arr(l)] : l \in AssetLists}

\* the responses the content type allows
ValidData ==
  UNION {{[items |-> Arr(l), includes |-> inc] : l \in EntryLists(o), inc \in IncludesValues} :
           o \in OtherFields}

\* a 2xx answer that is no entry list, and one with a poster link that has no sys
MalformedData ==
  {[items |-> Undef, includes |-> Undef],
   [items |-> Arr(<<Entry(1, [title |-> Str("Heat"), poster |-> Arr(<<BrokenLink>>)])>>),
    includes |-> Undef]}

Unparsable == [parsed |-> FALSE]
Parsed(data) == [parsed |-> TRUE, data |-> data]
Bodies == {Unparsable} \cup {Parsed(d) : d \in ValidData \cup MalformedData}

PriorFiles ==
  {NoFile, Garbage, EmptySnapshot,
   StringifyMovies(<<[id |-> Str("old"), title |-> Str("Stale"), releaseYear |-> Num(1980),
                      source |-> Str("contentful")]>>)}

(***************************************************************************)
(* fetch-cms-data.js, fetchContentfulData.                                 *)
(***************************************************************************)
LogLine(level, msg) == [level |-> level, msg |-> msg]

\* the statements of fetchContentfulData that stand inside try { }
InTry(step) == step \in {"fetch", "status", "json", "map"}

\* a catch block that logs and leaves cmsData.json as it was
CatchFileKept == cmsFile

\* what the catch block writes to cmsData.json
CatchFile == EmptySnapshot

\* a failure at `step` with message msg: the catch block, or out of the function
Fail(step, msg) ==
  IF InTry(step)
  THEN /\ snapLog' = snapLog \o <<LogLine("error", msg),
                                 LogLine("warn", "Creating empty cmsData.json file...")>>
       /\ cmsFile' = CatchFile
       /\ snapThrew' = FALSE
  ELSE /\ snapThrew' = TRUE
       /\ UNCHANGED <<snapLog, cmsFile>>

\* a check of the space identifier alone
SpaceIdMissing == ~Truthy(env.CONTENTFUL_SPACE_ID)

\* !SPACE_ID || !ACCESS_TOKEN
CredentialsMissing ==
  ~Truthy(env.CONTENTFUL_SPACE_ID) \/ ~Truthy(env.CONTENTFUL_ACCESS_TOKEN)

\* a write that keeps the records the file holds and adds the new ones
AppendFile(movies) ==
  IF cmsFile.kind = "json" /\ "movies" \in DOMAIN cmsFile.doc
  THEN JsonFile([movies |-> Arr(cmsFile.doc.movies.a \o StringifyMovies(movies).doc.movies.a)])
  ELSE StringifyMovies(movies)

\* fs.writeFileSync(outputPath, JSON.stringify({ movies }, null, 2)): the file
\* is replaced
WriteFile(movies) == StringifyMovies(movies)

\* the call up to `await fetch(url)`
FetchStart ==
  /\ spc = "start"
  /\ IF CredentialsMissing
     THEN /\ snapLog' = snapLog \o <<LogLine("warn", "Missing Contentful environment variables!"),
                                     LogLine("warn", "Creating empty cmsData.json file...")>>
          /\ cmsFile' = EmptySnapshot
          /\ spc' = "done"
          /\ UNCHANGED fetchCalls
     ELSE /\ fetchCalls' = fetchCalls + 1
          /\ spc' = "fetching"
          /\ UNCHANGED <<snapLog, cmsFile>>
  /\ UNCHANGED <<env, snapThrew, snapInput, runs, fileBefore>>
  /\ UNCHANGED notSnapshot

\* fetch settles; up to `await response.json()`
FetchSettle ==
  /\ spc = "fetching"
  /\ \E r \in (IF runs > 1 THEN {snapInput.response} ELSE FetchOutcomes) :
       /\ snapInput' = [snapInput EXCEPT !.response = r]
       /\ IF r.rejected
          THEN /\ Fail("fetch", "fetch failed")
               /\ spc' = "done"
          ELSE IF ~ResponseOk(r.status)
          THEN /\ Fail("status", "Contentful API Error: " \o ToString(r.status))
               /\ spc' = "done"
          ELSE /\ spc' = "parsing"
               /\ UNCHANGED <<snapLog, cmsFile, snapThrew>>
  /\ UNCHANGED <<env, fetchCalls, runs, fileBefore>>
  /\ UNCHANGED notSnapshot

\* response.json() settles; the mapping and the write
JsonSettle ==
  /\ spc = "parsing"
  /\ \E body \in (IF runs > 1 THEN {snapInput.body} ELSE Bodies) :
       /\ snapInput' = [snapInput EXCEPT !.body = body]
       /\ IF ~body.parsed
          THEN Fail("json", "Unexpected token < in JSON at position 0")
          ELSE LET movies == MapItems(body.data)
               IN  IF movies.threw
                   THEN Fail("map", movies.msg)
                   ELSE /\ cmsFile' = WriteFile(movies.v)
                        /\ snapLog' = snapLog \o <<LogLine("log", "Saved CMS data")>>
                        /\ UNCHANGED snapThrew
  /\ spc' = "done"
  /\ UNCHANGED <<env, fetchCalls, runs, fileBefore>>
  /\ UNCHANGED notSnapshot

\* fetch-cms-data.js is run once more, against the same content source: the
\* source answers what it answered to the first run
RunAgain ==
  /\ spc = "done"
  /\ ~snapThrew
  /\ runs < MaxRuns
  /\ runs' = runs + 1
  /\ fileBefore' = cmsFile
  /\ spc' = "start"
  /\ fetchCalls' = 0
  /\ snapLog' = <<>>
  /\ UNCHANGED <<env, cmsFile, snapThrew, snapInput>>
  /\ UNCHANGED notSnapshot

NoResponse == [rejected |-> FALSE, status |-> 0]

InitSnapshot ==
  /\ env \in [CONTENTFUL_SPACE_ID : CredValues, CONTENTFUL_ACCESS_TOKEN : CredValues]
  /\ cmsFile \in PriorFiles
  /\ spc = "start"
  /\ fetchCalls = 0
  /\ snapLog = <<>>
  /\ snapThrew = FALSE
  /\ snapInput = [response |-> NoResponse, body |-> Unparsable]
  /\ runs = 1
  /\ fileBefore = cmsFile

NextSnapshot == FetchStart \/ FetchSettle \/ JsonSettle \/ RunAgain


(***************************************************************************)
(* Properties of the snapshot step.                                        *)
(***************************************************************************)
\* the document {"movies": []}
EmptyMoviesDocument == [kind |-> "json", doc |-> [movies |-> [t |-> "array", a |-> <<>>]]]

FalsyCredential(v) == v = Undef \/ v = Str("")

\* C2: with the space identifier or the access credential undefined or empty,
\* fetchContentfulData makes no network call, and once it has finished the
\* snapshot file is exactly {movies: []}.
C2_MissingCredentialsEmptySnapshot ==
  (FalsyCredential(env.CONTENTFUL_SPACE_ID) \/ FalsyCredential(env.CONTENTFUL_ACCESS_TOKEN))
    => /\ fetchCalls = 0
       /\ spc \in {"start", "done"}
       /\ spc = "done" => cmsFile = EmptyMoviesDocument /\ ~snapThrew

\* a finished run with the token empty, over a snapshot of an earlier run
C2_Witness ==
  /\ spc = "done"
  /\ env.CONTENTFUL_SPACE_ID = Str("k1")
  /\ env.CONTENTFUL_ACCESS_TOKEN = Str("")
  /\ cmsFile = EmptyMoviesDocument
  /\ snapLog # <<>>

\* the remote fetch of the finished run failed
RemoteFetchFailed ==
  /\ spc = "done"
  /\ fetchCalls = 1
  /\ \/ snapInput.response.rejected
     \/ snapInput.response.status < 200
     \/ snapInput.response.status > 299
     \/ ~snapInput.body.parsed
     \/ snapInput.body.data \in MalformedData

\* C3: with both credentials present, every failure of the remote fetch (a
\* rejection, a non-2xx status, an unparsable body, an exception of the mapping)
\* ends with the snapshot file exactly {movies: []}, the cause logged as an
\* error, and nothing thrown out of fetchContentfulData.
C3_FailureEmptySnapshot ==
  RemoteFetchFailed
    => /\ cmsFile = EmptyMoviesDocument
       /\ ~snapThrew
       /\ \E i \in 1..Len(snapLog) : snapLog[i].level = "error"
       /\ (~snapInput.response.rejected /\ snapInput.response.status = 500)
            => \E i \in 1..Len(snapLog) :
                 snapLog[i] = [level |-> "error", msg |-> "Contentful API Error: 500"]

\* the content source answered HTTP 500
C3_Witness ==
  /\ RemoteFetchFailed
  /\ ~snapInput.response.rejected
  /\ snapInput.response.status = 500
  /\ cmsFile = EmptyMoviesDocument

\* the ids of the entries the content source gave to the current run: none
\* when the run made no fetch or the fetch gave no parsed entry list
CurrentIds ==
  IF /\ fetchCalls = 1
     /\ ~snapInput.response.rejected
     /\ snapInput.response.status \in 200..299
     /\ snapInput.body.parsed
     /\ snapInput.body.data.items # Undef
  THEN {Str(snapInput.body.data.items.a[i].sys.id) :
          i \in 1..Len(snapInput.body.data.items.a)}
  ELSE {}

\* C20: a run against the source that answered the run before leaves the
\* snapshot file with the content that run left, and after any run the file
\* is a JSON document whose records are only records of the current
\* response: no record of the file as it was before survives.
C20_SnapshotIdempotent ==
  spc = "done"
    => /\ runs >= 2 => cmsFile = fileBefore
       /\ cmsFile.kind = "json"
       /\ DOMAIN cmsFile.doc = {"movies"}
       /\ Len(cmsFile.doc.movies.a) <= Cardinality(CurrentIds)
       /\ \A i \in 1..Len(cmsFile.doc.movies.a) : cmsFile.doc.movies.a[i].id \in CurrentIds

\* the second run fetched the entry e1 again and left the one-record file
\* of the first run as it was
C20_Witness ==
  /\ spc = "done"
  /\ runs = 2
  /\ fetchCalls = 1
  /\ Len(cmsFile.doc.movies.a) = 1
  /\ cmsFile.doc.movies.a[1].id = Str("e1")
  /\ cmsFile = fileBefore

\* the finished run wrote the records of a valid response
WroteValidResponse ==
  /\ spc = "done"
  /\ fetchCalls = 1
  /\ ~snapInput.response.rejected
  /\ snapInput.response.status = 200
  /\ snapInput.body.parsed
  /\ snapInput.body.data \in ValidData

\* the URLs of the assets of the response
AssetUrls(data) ==
  LET assets == ExtractAssets(data) IN {assets[k] : k \in DOMAIN assets}

\* C10: every record written to the snapshot from a valid response has a
\* non-empty title, an integer releaseYear, and a poster that is the URL of an
\* asset of the response or the placeholder URL, never undefined or missing.
C10_SnapshotRecordsComplete ==
  WroteValidResponse
    => \A i \in 1..Len(cmsFile.doc.movies.a) :
         LET m == cmsFile.doc.movies.a[i]
         IN  /\ "title" \in DOMAIN m /\ m.title.t = "string" /\ m.title.s # ""
             /\ "releaseYear" \in DOMAIN m /\ m.releaseYear.t = "number"
             /\ m.releaseYear.n \in Int
             /\ "poster" \in DOMAIN m
             /\ m.poster \in AssetUrls(snapInput.body.data) \cup {Str(PlaceholderPoster)}


\* a reading that takes a file that is no JSON for a list of one record
ReadSnapshotLenient(file) ==
  IF file.kind = "absent"
  THEN [cmsMovies |-> <<>>, debug |-> [fileExists |-> FALSE]]
  ELSE IF file.kind = "unparsable"
  THEN [cmsMovies |-> <<[id |-> Str("e0"), releaseYear |-> Num(1999)]>>,
        debug |-> [fileExists |-> TRUE, cmsMoviesCount |-> 1]]
  ELSE LET movies == Or(Get(file.doc, "movies"), Arr(<<>>))
       IN  [cmsMovies |-> movies.a,
            debug |-> [fileExists |-> TRUE, cmsMoviesCount |-> Len(movies.a)]]

(***************************************************************************)
(* eleventy.config.js, the allMovies collection.                           *)
(***************************************************************************)
\* the try block of the callback: cmsMovies and what goes to collection-debug.json
ReadSnapshot(file) ==
  IF file.kind = "absent"
  THEN [cmsMovies |-> <<>>, debug |-> [fileExists |-> FALSE]]
  ELSE IF file.kind = "unparsable"
  THEN [cmsMovies |-> <<>>, debug |-> [error |-> "Unexpected token"]]
  ELSE LET movies == Or(Get(file.doc, "movies"), Arr(<<>>))
       IN  [cmsMovies |-> movies.a,
            debug |-> [fileExists |-> TRUE, cmsMoviesCount |-> Len(movies.a)]]

\* { ...item.data, id: item.page.fileSlug, source: item.data.source || "local",
\*   page: item.page, url: item.url, date: item.date }
LocalMovie(item) ==
  LET withId == PutKey(item.data, "id", Str(item.page.fileSlug))
      withSource == PutKey(withId, "source", Or(Get(item.data, "source"), Str("local")))
      withPage == PutKey(withSource, "page", item.page)
      withUrl == PutKey(withPage, "url", Str(item.url))
  IN  PutKey(withUrl, "date", Str(item.date))

\* a.releaseYear || a.data?.releaseYear || 0
YearOf(a) ==
  Or(Or(Get(a, "releaseYear"),
        IF Get(a, "data") = Undef THEN Undef ELSE Get(Get(a, "data"), "releaseYear")),
     Num(0))

\* a comparator that sorts ascending
CompareAscending(a, b) == YearOf(a).n - YearOf(b).n

\* (a, b) => yearB - yearA
CompareYears(a, b) == YearOf(b).n - YearOf(a).n

\* x put behind every element of the sorted list that does not sort after it
RECURSIVE InsertSorted(_, _)
InsertSorted(sorted, x) ==
  IF sorted = <<>> THEN <<x>>
  ELSE IF CompareYears(Head(sorted), x) > 0
  THEN <<x>> \o sorted
  ELSE <<Head(sorted)>> \o InsertSorted(Tail(sorted), x)

\* Array.prototype.sort with the comparator: a stable sort
RECURSIVE SortMovies(_)
SortMovies(list) ==
  IF list = <<>> THEN <<>>
  ELSE InsertSorted(SortMovies(SubSeq(list, 1, Len(list) - 1)), list[Len(list)])

\* a merge that skips a local record whose id a snapshot record already has
MergeMoviesById(cmsMovies, items) ==
  cmsMovies \o SelectSeq([i \in 1..Len(items) |-> LocalMovie(items[i])],
                         LAMBDA m : \A j \in 1..Len(cmsMovies) : Get(cmsMovies[j], "id") # m.id)

\* [...cmsMovies, ...localMovies]
MergeMovies(cmsMovies, items) ==
  cmsMovies \o [i \in 1..Len(items) |-> LocalMovie(items[i])]

\* cmsData.movies || [] is a value that [...cmsMovies] cannot spread
NotIterable(file) ==
  /\ file.kind = "json"
  /\ Truthy(Get(file.doc, "movies"))
  /\ Get(file.doc, "movies").t # "array"

\* the callback given to eleventyConfig.addCollection("allMovies", ...)
AllMoviesCollection ==
  /\ mpc = "ready"
  /\ IF NotIterable(cmsFile)
     THEN /\ debugFile' = [fileExists |-> TRUE]
          /\ mpc' = "threw"
          /\ UNCHANGED allMovies
     ELSE LET read == ReadSnapshot(cmsFile)
          IN  /\ debugFile' = read.debug
              /\ allMovies' = SortMovies(MergeMovies(read.cmsMovies, localFiles))
              /\ mpc' = "done"
  /\ UNCHANGED <<cmsFile, localFiles, moviesList, lpc>>
  /\ UNCHANGED notMerge

\* _data/allMoviesList.js and .cjs: cmsData.movies || [], [] when the file is
\* absent or JSON.parse throws
ReadMoviesList(file) ==
  IF file.kind = "absent" THEN Arr(<<>>)
  ELSE IF file.kind = "unparsable" THEN Arr(<<>>)
  ELSE Or(Get(file.doc, "movies"), Arr(<<>>))

\* the data function of _data/allMoviesList.js
AllMoviesListData ==
  /\ lpc = "ready"
  /\ moviesList' = ReadMoviesList(cmsFile)
  /\ lpc' = "done"
  /\ UNCHANGED <<cmsFile, localFiles, allMovies, debugFile, mpc>>
  /\ UNCHANGED notMerge


(***************************************************************************)
(* What the collection callback can find on disk.                          *)
(***************************************************************************)
\* front matter of movies/*.md; the first is the one the README gives
FrontMatters ==
  {[layout |-> Str("layouts/movie.njk"), title |-> Str("Movie Name"), year |-> Num(2024),
    genre |-> Str("Genre"), rating |-> Num(4), director |-> Str("Director"),
    image |-> Str("/images/poster.jpg"), tags |-> Arr(<<Str("movies")>>)],
   [title |-> Str("Heat"), releaseYear |-> Num(2010)],
   [title |-> Str("Ronin"), releaseYear |-> Num(2001), source |-> Str("imported")],
   [releaseYear |-> Num(2010)],
   [title |-> Str("Alien"), data |-> [releaseYear |-> Num(2020)]]}

Template(i, frontMatter) ==
  [data |-> frontMatter,
   page |-> [fileSlug |-> "m" \o ToString(i)],
   url |-> "/movies/m" \o ToString(i) \o "/",
   date |-> "2025-11-13"]

LocalLists ==
  UNION {{[i \in 1..n |-> Template(i, f[i])] : f \in [1..n -> FrontMatters]} :
           n \in 0..MaxLocal}

\* the records fetchContentfulData writes for entries with these release years
RemoteYears == {Undef, Num(2001), Num(2010), Num(2020)}

SnapshotMovie(i, year) ==
  DropUndefined(
    MapItem(Entry(i, DropUndefined([title |-> Str("Heat"), releaseYear |-> year])), <<>>).v)

SnapshotLists ==
  UNION {{[i \in 1..n |-> SnapshotMovie(i, y[i])] : y \in [1..n -> RemoteYears]} :
           n \in 0..MaxRemote}

\* a snapshot record with the id and the title of the local file m1 (Heat)
Homonym ==
  [id |-> Str("m1"), title |-> Str("Heat"), director |-> Str("Unknown"),
   releaseYear |-> Num(2010), genre |-> Str("Unknown"), rating |-> Num(0),
   description |-> Str(""), poster |-> Str(PlaceholderPoster), source |-> Str("contentful")]

SnapshotFiles ==
  {NoFile, Garbage, JsonFile([version |-> Num(1)]), JsonFile([movies |-> Num(5)]),
   JsonFile([movies |-> Arr(<<Homonym>>)])}
  \cup {JsonFile([movies |-> Arr(l)]) : l \in SnapshotLists}

InitMerge ==
  /\ cmsFile \in SnapshotFiles
  /\ localFiles \in LocalLists
  /\ allMovies = <<>>
  /\ debugFile = [fileExists |-> FALSE]
  /\ mpc = "ready"
  /\ moviesList = Undef
  /\ lpc = "ready"

NextMerge ==
  \/ AllMoviesCollection
  \/ AllMoviesListData

(***************************************************************************)
(* Properties of the allMovies collection.                                 *)
(***************************************************************************)
\* R followed by L: the snapshot's records, then the local ones
Concatenation ==
  (IF cmsFile.kind = "json" /\ "movies" \in DOMAIN cmsFile.doc
   THEN cmsFile.doc.movies.a ELSE <<>>)
  \o [i \in 1..Len(localFiles) |-> LocalMovie(localFiles[i])]

PositionIn(list, x) == CHOOSE i \in 1..Len(list) : list[i] = x

\* out holds the elements of in, by Key descending, equal keys in the order of in
StableDescending(out, in, Key(_)) ==
  /\ Len(out) = Len(in)
  /\ {out[i] : i \in 1..Len(out)} = {in[i] : i \in 1..Len(in)}
  /\ \A i, j \in 1..Len(out) :
       i < j => \/ Key(out[i]) > Key(out[j])
                \/ /\ Key(out[i]) = Key(out[j])
                   /\ PositionIn(in, out[i]) < PositionIn(in, out[j])

\* the releaseYear of a record, 0 for a record with none
ReleaseYearOrZero(r) == IF "releaseYear" \in DOMAIN r THEN r.releaseYear.n ELSE 0

\* the year the comparator reads: releaseYear, else data.releaseYear, else 0
ComparedYear(r) ==
  IF "releaseYear" \in DOMAIN r /\ r.releaseYear.n # 0 THEN r.releaseYear.n
  ELSE IF "data" \in DOMAIN r /\ "releaseYear" \in DOMAIN r.data THEN r.data.releaseYear.n
  ELSE 0

NonNull(r, k) == k \in DOMAIN r /\ r[k] # Undef /\ r[k] # Null

\* C9: every record of allMovies, from the snapshot or from a local file, has
\* a non-null title, a non-null releaseYear and a non-null source.
C9_RecordsDefaulted ==
  mpc = "done"
    => \A i \in 1..Len(allMovies) :
         /\ NonNull(allMovies[i], "title")
         /\ NonNull(allMovies[i], "releaseYear")
         /\ NonNull(allMovies[i], "source")

\* how many times x occurs in list
Occurrences(list, x) == Cardinality({i \in 1..Len(list) : list[i] = x})

\* C12: allMovies is a permutation of R followed by L, of length |R| + |L|:
\* no record is dropped and none is deduplicated, also when a snapshot record
\* and a local record have the same id or title.
C12_MergeIsPermutation ==
  mpc = "done"
    => /\ Len(allMovies) = Len(ReadSnapshot(cmsFile).cmsMovies) + Len(localFiles)
       /\ \A i \in 1..Len(Concatenation) :
            Occurrences(allMovies, Concatenation[i])
              = Occurrences(Concatenation, Concatenation[i])

\* a snapshot record and a local record with the same id and title, both kept
C12_Witness ==
  /\ mpc = "done"
  /\ Len(allMovies) = 2
  /\ allMovies[1].id = allMovies[2].id
  /\ Get(allMovies[1], "title") = Str("Heat")
  /\ Get(allMovies[2], "title") = Str("Heat")
  /\ allMovies[1].source = Str("contentful")
  /\ allMovies[2].source = Str("local")

\* the records of the local files alone
LocalRecords == [i \in 1..Len(localFiles) |-> LocalMovie(localFiles[i])]

\* the snapshot file is absent or holds text that is no JSON
SnapshotUnreadable == cmsFile.kind \in {"absent", "unparsable"}

\* C11: when the snapshot file is absent or does not parse, neither the
\* collection callback nor the allMoviesList data function throws; the
\* callback returns the local records alone, sorted, and the data function
\* returns an empty list.
C11_UnreadableSnapshotNoRemote ==
  SnapshotUnreadable
    => /\ mpc \in {"ready", "done"}
       /\ lpc \in {"ready", "done"}
       /\ mpc = "done" => StableDescending(allMovies, LocalRecords, ComparedYear)
       /\ lpc = "done" => moviesList = Arr(<<>>)

\* an unparsable snapshot, two local files returned in the other order
C11_Witness ==
  /\ cmsFile = Garbage
  /\ mpc = "done" /\ lpc = "done"
  /\ Len(localFiles) = 2
  /\ [i \in 1..2 |-> allMovies[i].id.s] = <<"m2", "m1">>
  /\ moviesList = Arr(<<>>)


(***************************************************************************)
(* netlify/functions/movie.js, the handler.                                *)
(***************************************************************************)
\* JSON.stringify(obj), as the document the receiver parses
Stringify(obj) == DropUndefined(obj)

JsonHeaders ==
  ("Content-Type" :> "application/json") @@ ("Access-Control-Allow-Origin" :> "*")

CachedJsonHeaders == JsonHeaders @@ ("Cache-Control" :> "public, max-age=3600")

HttpResponse(status, headers, body) ==
  [statusCode |-> status, headers |-> headers, body |-> Stringify(body)]

\* const { title } = event.queryStringParameters || {}
QueryTitle(ev) ==
  IF ev.queryStringParameters = Null \/ ev.queryStringParameters = Undef
  THEN Undef
  ELSE Get(ev.queryStringParameters, "title")

\* a validation that lets the empty title through
TitleUndefined(title) == title = Undef

\* !title
TitleMissing(title) == ~Truthy(title)

BadRequest ==
  HttpResponse(400, JsonHeaders,
    [error |-> Str("Missing required parameter: title"),
     message |-> Str("Please provide a movie title in the query string")])

\* a check that takes every answer without Response "True" for no match
ResponseNotTrue(data) == Get(data, "Response") # Str("True")

\* data.Response === 'False'
ResponseFalse(data) == Get(data, "Response") = Str("False")

NotFound(data) ==
  HttpResponse(404, JsonHeaders,
    [error |-> Str("Movie not found"),
     message |-> Or(Get(data, "Error"), Str("No movie found with that title"))])

\* const movieData = { ... }
MovieData(data) ==
  [title      |-> Get(data, "Title"),
   imdbRating |-> Or(Get(data, "imdbRating"), Str("N/A")),
   runtime    |-> Or(Get(data, "Runtime"), Str("N/A")),
   genre      |-> Or(Get(data, "Genre"), Str("N/A")),
   actors     |-> Or(Get(data, "Actors"), Str("N/A")),
   plot       |-> Or(Get(data, "Plot"), Str("N/A")),
   poster     |-> IF Get(data, "Poster") # Str("N/A") THEN Get(data, "Poster") ELSE Null,
   year       |-> Or(Get(data, "Year"), Str("N/A")),
   director   |-> Or(Get(data, "Director"), Str("N/A"))]

\* a 200 answer without the cache directive
FoundUncached(data) == HttpResponse(200, JsonHeaders, MovieData(data))

Found(data) == HttpResponse(200, CachedJsonHeaders, MovieData(data))

\* a catch block that always reports the error's message
ServerErrorVerbose(msg) ==
  HttpResponse(500, JsonHeaders,
    [error |-> Str("Internal server error"),
     message |-> Str("Failed to fetch movie data. Please try again later."),
     details |-> Str(msg)])

\* the catch block's answer to an error with this message
ServerError(msg) ==
  HttpResponse(500, JsonHeaders,
    [error |-> Str("Internal server error"),
     message |-> Str("Failed to fetch movie data. Please try again later."),
     details |-> IF nodeEnv = Str("development") THEN Str(msg) ELSE Undef])

\* a status check that takes every status for a success
AnyStatusOk(status) == TRUE

\* response.ok of the lookup API's answer
UpstreamOk(status) == ResponseOk(status)

\* the statements of the handler that stand inside try { }
HandlerInTry(step) == step \in {"query", "fetch", "status", "json", "shape"}

\* a failure at `step`: the catch block's answer, or out of the handler
HandlerFail(step, msg) ==
  IF HandlerInTry(step)
  THEN /\ proxyResponse' = ServerError(msg)
       /\ proxyThrew' = FALSE
  ELSE /\ proxyThrew' = TRUE
       /\ UNCHANGED proxyResponse

\* the handler up to `await fetch(apiUrl)`
HandlerStart ==
  /\ ppc = "start"
  /\ LET title == QueryTitle(event)
     IN  IF TitleMissing(title)
         THEN /\ proxyResponse' = BadRequest
              /\ ppc' = "returned"
              /\ UNCHANGED omdbQueries
         ELSE /\ omdbQueries' = Append(omdbQueries, title.s)
              /\ ppc' = "fetching"
              /\ UNCHANGED proxyResponse
  /\ UNCHANGED <<event, nodeEnv, proxyInput, proxyThrew>>
  /\ UNCHANGED notProxy

\* fetch settles; up to `await response.json()`
OmdbSettle ==
  /\ ppc = "fetching"
  /\ \E r \in FetchOutcomes :
       /\ proxyInput' = [proxyInput EXCEPT !.response = r]
       /\ IF r.rejected
          THEN /\ HandlerFail("fetch", "request to https://www.omdbapi.com/ failed")
               /\ ppc' = "returned"
          ELSE IF ~UpstreamOk(r.status)
          THEN /\ HandlerFail("status", "OMDB API returned status " \o ToString(r.status))
               /\ ppc' = "returned"
          ELSE /\ ppc' = "parsing"
               /\ UNCHANGED <<proxyResponse, proxyThrew>>
  /\ UNCHANGED <<event, nodeEnv, omdbQueries>>
  /\ UNCHANGED notProxy


\* what response.json() of the lookup API can give
OmdbOthers ==
  {[Runtime |-> Undef, Genre |-> Undef, Actors |-> Undef, Plot |-> Undef, Year |-> Undef,
    Director |-> Undef],
   [Runtime |-> Str("170 min"), Genre |-> Str("Crime"), Actors |-> Str("Al Pacino"),
    Plot |-> Str("A heist"), Year |-> Str("1995"), Director |-> Str("Michael Mann")]}

OmdbData ==
  {DropUndefined([Response |-> r, Error |-> e, Title |-> ti, imdbRating |-> ir, Poster |-> p,
                  Runtime |-> o.Runtime, Genre |-> o.Genre, Actors |-> o.Actors,
                  Plot |-> o.Plot, Year |-> o.Year, Director |-> o.Director]) :
     r \in {Undef, Str("True"), Str("False")},
     e \in {Undef, Str("Movie not found!")},
     ti \in {Undef, Str("Heat")},
     ir \in {Undef, Str("8.3"), Str("N/A")},
     p \in {Undef, Str("N/A"), Str("https://m.media-amazon.com/heat.jpg")},
     o \in OmdbOthers}

OmdbBodies == {Unparsable, Parsed(Null)} \cup {Parsed(d) : d \in OmdbData}

\* response.json() settles; the reshaping and the return
OmdbJson ==
  /\ ppc = "parsing"
  /\ \E body \in OmdbBodies :
       /\ proxyInput' = [proxyInput EXCEPT !.body = body]
       /\ IF ~body.parsed
          THEN HandlerFail("json", "invalid json response body")
          ELSE IF body.data = Null
          THEN HandlerFail("shape", "Cannot read properties of null (reading 'Response')")
          ELSE /\ proxyResponse' = IF ResponseFalse(body.data)
                                   THEN NotFound(body.data)
                                   ELSE Found(body.data)
               /\ UNCHANGED proxyThrew
  /\ ppc' = "returned"
  /\ UNCHANGED <<event, nodeEnv, omdbQueries>>
  /\ UNCHANGED notProxy

Events ==
  {[queryStringParameters |-> q] :
     q \in {Null, <<>>, [id |-> Str("7")], [title |-> Str("")], [title |-> Str("Heat")],
            [title |-> Str("ThisMovieDoesNotExist12345")]}}

NoAnswer == [statusCode |-> 0, headers |-> <<>>, body |-> <<>>]

InitProxy ==
  /\ event \in Events
  /\ nodeEnv \in {Undef, Str("production"), Str("development")}
  /\ ppc = "start"
  /\ omdbQueries = <<>>
  /\ proxyInput = [response |-> NoResponse, body |-> Unparsable]
  /\ proxyResponse = NoAnswer
  /\ proxyThrew = FALSE

NextProxy == HandlerStart \/ OmdbSettle \/ OmdbJson

(***************************************************************************)
(* Properties of the proxy.                                                *)
(***************************************************************************)
\* the request carries no title: no parameters at all, none named title, or ""
NoTitleGiven ==
  \/ event.queryStringParameters = Null
  \/ "title" \notin DOMAIN event.queryStringParameters
  \/ event.queryStringParameters.title = Str("")

\* C5: a request with no title parameter (no parameters, title absent, or
\* title empty) is answered 400 with error and message in the body, and the
\* lookup API is never called for it.
C5_MissingTitleBadRequest ==
  NoTitleGiven
    => /\ omdbQueries = <<>>
       /\ ppc \in {"start", "returned"}
       /\ ppc = "returned"
            => /\ ~proxyThrew
               /\ proxyResponse.statusCode = 400
               /\ {"error", "message"} \subseteq DOMAIN proxyResponse.body

\* the request ?title= (empty) was answered
C5_Witness ==
  /\ ppc = "returned"
  /\ event.queryStringParameters = [title |-> Str("")]
  /\ proxyResponse.statusCode = 400

\* the lookup API answered 2xx with a body whose Response field is "False"
UpstreamSaysNotFound ==
  /\ ~proxyInput.response.rejected
  /\ proxyInput.response.status >= 200 /\ proxyInput.response.status <= 299
  /\ proxyInput.body.parsed
  /\ proxyInput.body.data # Null
  /\ "Response" \in DOMAIN proxyInput.body.data
  /\ proxyInput.body.data.Response = Str("False")

\* C6: the handler answers 404, with error "Movie not found", exactly when the
\* lookup API answered 2xx with Response "False".
C6_NotFoundExactly ==
  ppc = "returned"
    => /\ UpstreamSaysNotFound
            => /\ proxyResponse.statusCode = 404
               /\ Get(proxyResponse.body, "error") = Str("Movie not found")
       /\ proxyResponse.statusCode = 404 => UpstreamSaysNotFound

\* a 404 for a title the lookup API does not know
C6_Witness ==
  /\ ppc = "returned"
  /\ UpstreamSaysNotFound
  /\ event.queryStringParameters = [title |-> Str("ThisMovieDoesNotExist12345")]
  /\ proxyResponse.statusCode = 404

\* the lookup API answered 2xx with a body whose Response field is not "False"
UpstreamSaysFound ==
  /\ ppc = "returned"
  /\ omdbQueries # <<>>
  /\ ~proxyInput.response.rejected
  /\ proxyInput.response.status >= 200 /\ proxyInput.response.status <= 299
  /\ proxyInput.body.parsed
  /\ proxyInput.body.data # Null
  /\ Get(proxyInput.body.data, "Response") # Str("False")

UpstreamField ==
  [title |-> "Title", imdbRating |-> "imdbRating", runtime |-> "Runtime", genre |-> "Genre",
   actors |-> "Actors", plot |-> "Plot", year |-> "Year", director |-> "Director"]

\* C7: the 200 body holds each of the nine fields; a field absent upstream is
\* "N/A" (title, imdbRating, runtime, genre, actors, plot, year, director),
\* and poster is null when the upstream Poster is "N/A".
C7_AllFieldsDefaulted ==
  UpstreamSaysFound
    => /\ proxyResponse.statusCode = 200
       /\ DOMAIN UpstreamField \cup {"poster"} \subseteq DOMAIN proxyResponse.body
       /\ \A f \in DOMAIN UpstreamField :
            UpstreamField[f] \notin DOMAIN proxyInput.body.data
              => proxyResponse.body[f] = Str("N/A")
       /\ Get(proxyInput.body.data, "Poster") = Str("N/A")
            => proxyResponse.body.poster = Null

\* the upstream call failed: rejected, non-2xx, or a body that is no JSON
UpstreamFailed ==
  /\ ppc = "returned"
  /\ omdbQueries # <<>>
  /\ \/ proxyInput.response.rejected
     \/ proxyInput.response.status < 200
     \/ proxyInput.response.status > 299
     \/ ~proxyInput.body.parsed

\* C8: when the upstream call fails (rejection, non-2xx status, unparsable
\* body) the handler does not throw: it answers 500 with error and message.
C8_UpstreamFailureServerError ==
  UpstreamFailed
    => /\ ~proxyThrew
       /\ proxyResponse.statusCode = 500
       /\ {"error", "message"} \subseteq DOMAIN proxyResponse.body
       /\ proxyResponse.body.error = Str("Internal server error")
       /\ proxyResponse.body.message
            = Str("Failed to fetch movie data. Please try again later.")

\* the lookup API answered 404 (a status, not a Response "False")
C8_Witness ==
  /\ UpstreamFailed
  /\ ~proxyInput.response.rejected
  /\ proxyInput.response.status = 404
  /\ proxyResponse.statusCode = 500

\* C17: every answer of the handler, of status 200, 400, 404 or 500, carries
\* Content-Type: application/json and Access-Control-Allow-Origin: *, and it
\* carries Cache-Control: public, max-age=3600 exactly when its status is 200.
C17_ResponseHeaders ==
  ppc = "returned"
    => /\ ~proxyThrew
       /\ proxyResponse.statusCode \in {200, 400, 404, 500}
       /\ {"Content-Type", "Access-Control-Allow-Origin"} \subseteq DOMAIN proxyResponse.headers
       /\ proxyResponse.headers["Content-Type"] = "application/json"
       /\ proxyResponse.headers["Access-Control-Allow-Origin"] = "*"
       /\ "Cache-Control" \in DOMAIN proxyResponse.headers
            <=> proxyResponse.statusCode = 200
       /\ proxyResponse.statusCode = 200
            => proxyResponse.headers["Cache-Control"] = "public, max-age=3600"

\* a 200 answer for Heat, with the three headers
C17_Witness ==
  /\ ppc = "returned"
  /\ proxyResponse.statusCode = 200
  /\ Get(proxyResponse.body, "title") = Str("Heat")
  /\ DOMAIN proxyResponse.headers
       = {"Content-Type", "Access-Control-Allow-Origin", "Cache-Control"}

\* the body of a 500 answer that tells nothing of the failure
GenericErrorBody ==
  [error |-> Str("Internal server error"),
   message |-> Str("Failed to fetch movie data. Please try again later.")]

\* C18: with NODE_ENV other than "development" every 500 answer has the same
\* body, whatever failed, and that body has no details field; a details
\* field, with the internal error message, is in the body only when NODE_ENV
\* is "development".
C18_GenericErrorBody ==
  (ppc = "returned" /\ proxyResponse.statusCode = 500)
    => /\ nodeEnv # Str("development") => proxyResponse.body = GenericErrorBody
       /\ "details" \in DOMAIN proxyResponse.body <=> nodeEnv = Str("development")
       /\ [k \in DOMAIN GenericErrorBody |-> proxyResponse.body[k]] = GenericErrorBody

\* in production the lookup API answered 500, and the handler's 500 body is
\* the generic one
C18_Witness ==
  /\ ppc = "returned"
  /\ nodeEnv = Str("production")
  /\ ~proxyInput.response.rejected
  /\ proxyInput.response.status = 500
  /\ proxyResponse.statusCode = 500
  /\ proxyResponse.body = GenericErrorBody


(***************************************************************************)
(* live.js, the in-page cache and renderer.  A text that the script searches *)
(* with includes() is a sequence of pieces, cut so that every searched      *)
(* phrase is a piece; JoinText gives the string.  The fade-in timers of     *)
(* updateUI are left out.                                                  *)
(***************************************************************************)
RegionIds == {"live-rating", "live-runtime", "live-genre", "live-actors", "live-plot"}

RECURSIVE JoinText(_)
JoinText(pieces) == IF pieces = <<>> THEN "" ELSE Head(pieces) \o JoinText(Tail(pieces))

\* text.includes(phrase)
TextIncludes(pieces, phrase) == \E i \in 1..Len(pieces) : pieces[i] = phrase

\* the strings of the proxy's envelopes, in pieces
Pieces(s) ==
  CASE s = "Movie not found" -> <<"Movie ", "not found">>
    [] s = "Movie not found!" -> <<"Movie ", "not found", "!">>
    [] OTHER -> <<s>>

\* element.textContent = value
TextContent(v) ==
  CASE v.t = "string" -> v.s
    [] OTHER -> ""

\* `${value}`
Interpolated(v) ==
  CASE v.t = "string" -> v.s
    [] v.t = "null" -> "null"
    [] OTHER -> "undefined"

Region(text, fontStyle, color) == [text |-> text, fontStyle |-> fontStyle, color |-> color]

\* a loading state written to the plot region alone
UpdateUILoadingPlotOnly ==
  [id \in RegionIds |->
     IF id = "live-plot" THEN Region("Loading...", "italic", "#666") ELSE dom[id]]

\* updateUILoading()
UpdateUILoading == [id \in RegionIds |-> Region("Loading...", "italic", "#666")]

\* updateUI(data)
UpdateUI(data) ==
  [id \in RegionIds |->
     Region(CASE id = "live-rating" ->
                   IF Get(data, "imdbRating") # Str("N/A")
                   THEN "* " \o Interpolated(Get(data, "imdbRating")) \o "/10"
                   ELSE "N/A"
              [] id = "live-runtime" -> TextContent(Get(data, "runtime"))
              [] id = "live-genre" -> TextContent(Get(data, "genre"))
              [] id = "live-actors" -> TextContent(Get(data, "actors"))
              [] id = "live-plot" -> TextContent(Get(data, "plot")),
            "normal", "inherit")]

NotInOmdbText ==
  "This movie is not available in OMDB database (primarily Hollywood movies). Try viewing a Hollywood movie like \"Inception\" or \"The Matrix\" to see live data."
NetlifyOnlyText ==
  "Live data available only on Netlify deployment. This movie may also not be in OMDB database."

\* updateUIWithError(errorMessage)
UpdateUIWithError(errorMessage) ==
  [id \in RegionIds |->
     IF id = "live-plot"
     THEN Region(IF TextIncludes(errorMessage, "not found") \/ TextIncludes(errorMessage, "404")
                 THEN NotInOmdbText
                 ELSE IF TextIncludes(errorMessage, "not available")
                 THEN NetlifyOnlyText
                 ELSE "Unable to load live data: " \o JoinText(errorMessage),
                 "italic", "#d32f2f")
     ELSE Region("N/A", "italic", "#999")]

\* a save that keys the entry by the title in lower case
SaveToStateLowerCase(state, title, data) ==
  PutKey(state, IF title = "Heat" THEN "heat" ELSE title, [data |-> data, cached |-> TRUE])

\* liveMovieState[title] = { data, timestamp, cached: true } (the timestamp left out)
SaveToState(state, title, data) == PutKey(state, title, [data |-> data, cached |-> TRUE])

\* a lookup that never finds an entry
GetFromStateNever(state, title) == Null

\* getFromState(title)
GetFromState(state, title) == IF title \in DOMAIN state THEN state[title].data ELSE Null

\* a reset that empties the cache
DeleteEverything(state, title) == <<>>

\* delete liveMovieState[title]
DeleteFromState(state, title) == [k \in DOMAIN state \ {title} |-> state[k]]

\* the data of a cache entry is truthy: an object, or a truthy primitive
CachedTruthy(data) == IF "t" \in DOMAIN data THEN Truthy(data) ELSE TRUE

\* no answer to fetch() ended a call in this step
NoInput == [kind |-> "none"]

\* the titles a page can carry; two casings of one title are two keys
TitleStrings == {"Heat", "heat"}

\* what reading the data-movie-title attribute can give: no element, an empty
\* value, or a title
PageTitles == {Null, Str("")} \cup {Str(t) : t \in TitleStrings}

\* what a later read of the attribute can give: what it gave before, or the
\* title of another movie
Reread == {titleAttr} \cup {Str(t) : t \in TitleStrings}

\* a load that does not test the title for emptiness
LoadBeginUnchecked(state) ==
  /\ loadCalls' = loadCalls + 1
  /\ IF titleAttr' = Null
     THEN UNCHANGED <<dom, pending, netCalls>>
     ELSE LET cachedData == GetFromState(state, titleAttr'.s)
          IN  IF CachedTruthy(cachedData)
              THEN /\ dom' = UpdateUI(cachedData)
                   /\ UNCHANGED <<pending, netCalls>>
              ELSE /\ dom' = UpdateUILoading
                   /\ netCalls' = netCalls + 1
                   /\ pending' = pending \cup
                        {[id |-> loadCalls + 1, movieTitle |-> titleAttr'.s, at |-> "fetch",
                          status |-> 0]}

\* loadLiveMovieData() up to `await fetch(functionUrl)`, over the cache `state`,
\* on a page whose attribute reads titleAttr'
LoadBegin(state) ==
  /\ loadCalls' = loadCalls + 1
  /\ IF titleAttr' = Null
     THEN UNCHANGED <<dom, pending, netCalls>>
     ELSE IF ~Truthy(titleAttr')
     THEN /\ dom' = UpdateUIWithError(<<"Movie title not specified">>)
          /\ UNCHANGED <<pending, netCalls>>
     ELSE LET cachedData == GetFromState(state, titleAttr'.s)
          IN  IF CachedTruthy(cachedData)
              THEN /\ dom' = UpdateUI(cachedData)
                   /\ UNCHANGED <<pending, netCalls>>
              ELSE /\ dom' = UpdateUILoading
                   /\ netCalls' = netCalls + 1
                   /\ pending' = pending \cup
                        {[id |-> loadCalls + 1, movieTitle |-> titleAttr'.s, at |-> "fetch",
                          status |-> 0]}

\* the DOMContentLoaded listener
DOMContentLoaded ==
  /\ ~pageReady
  /\ pageReady' = TRUE
  /\ UNCHANGED titleAttr
  /\ IF titleAttr # Null
     THEN LoadBegin(liveMovieState)
     ELSE UNCHANGED <<dom, pending, netCalls, loadCalls>>
  /\ UNCHANGED <<liveMovieState, refreshCalls, okRenders, issuedBeforeRefresh>>
  /\ lastInput' = NoInput
  /\ UNCHANGED notClient

\* a call of the global function loadLiveMovieData(); the attribute is read anew
LoadLiveMovieData ==
  /\ pageReady
  /\ loadCalls < MaxCalls
  /\ Cardinality(pending) < MaxInFlight
  /\ titleAttr' \in Reread
  /\ LoadBegin(liveMovieState)
  /\ UNCHANGED <<liveMovieState, refreshCalls, pageReady, okRenders, issuedBeforeRefresh>>
  /\ lastInput' = NoInput
  /\ UNCHANGED notClient

\* window.refreshMovieData()
RefreshMovieData ==
  /\ pageReady
  /\ loadCalls < MaxCalls
  /\ Cardinality(pending) < MaxInFlight
  /\ refreshCalls' = refreshCalls + 1
  /\ titleAttr' \in Reread
  /\ liveMovieState' = IF titleAttr' # Null
                       THEN DeleteFromState(liveMovieState, TextContent(titleAttr'))
                       ELSE liveMovieState
  /\ okRenders' = [t \in TitleStrings |->
                      IF titleAttr' = Str(t) THEN <<>> ELSE okRenders[t]]
  /\ issuedBeforeRefresh' = issuedBeforeRefresh
                              \cup {p.id : p \in {q \in pending : Str(q.movieTitle) = titleAttr'}}
  /\ LoadBegin(liveMovieState')
  /\ UNCHANGED pageReady
  /\ lastInput' = NoInput
  /\ UNCHANGED notClient


\* what the proxy endpoint can answer to the page
HtmlType == <<"text/html", "; charset=utf-8">>
JsonType == <<"application/json">>

ClientReplies ==
  {[rejected |-> TRUE, status |-> 0, contentType |-> <<>>],
   [rejected |-> FALSE, status |-> 200, contentType |-> JsonType],
   [rejected |-> FALSE, status |-> 404, contentType |-> HtmlType],
   [rejected |-> FALSE, status |-> 404, contentType |-> JsonType],
   [rejected |-> FALSE, status |-> 500, contentType |-> JsonType],
   [rejected |-> FALSE, status |-> 500, contentType |-> <<>>]}

\* bodies of the proxy's 200 answers
MovieBodies ==
  {Parsed(Found(d).body) :
     d \in {[Response |-> Str("True"), Title |-> Str("Heat"), imdbRating |-> Str("8.3"),
             Runtime |-> Str("170 min"), Genre |-> Str("Crime"), Actors |-> Str("Al Pacino"),
             Plot |-> Str("A heist")],
            [Response |-> Str("True")]}}
  \cup {Unparsable}

\* bodies of the proxy's 404 and 500 answers
ErrorBodies ==
  {Parsed(NotFound([Response |-> Str("False"), Error |-> Str("Movie not found!")]).body),
   Parsed(NotFound([Response |-> Str("False")]).body),
   Parsed(ServerError("OMDB API returned status 503").body),
   Parsed([error |-> Str("Bad Gateway")]),
   Parsed(<<>>),
   Parsed(Null),
   Unparsable}

\* a catch block that logs the error and writes no region
LoadFailedSilently(p, errorMessage) ==
  /\ dom' = dom
  /\ pending' = pending \ {p}
  /\ UNCHANGED <<liveMovieState, okRenders>>

\* the catch block of loadLiveMovieData, for the call p
LoadFailed(p, errorMessage) ==
  /\ dom' = UpdateUIWithError(errorMessage)
  /\ pending' = pending \ {p}
  /\ UNCHANGED <<liveMovieState, okRenders>>

ServerlessMessage ==
  <<"Serverless function", " ", "not available", ". Deploy to Netlify to see live data.">>

\* contentType && contentType.includes('text/html')
IsHtml(contentType) == contentType # <<>> /\ TextIncludes(contentType, "text/html")

\* fetch(functionUrl) settles; up to the next await
ProxyFetchSettle ==
  /\ \E p \in pending, r \in ClientReplies :
       /\ p.at = "fetch"
       /\ IF r.rejected
          THEN LoadFailed(p, <<"Failed to fetch">>)
          ELSE IF ~ResponseOk(r.status)
          THEN IF IsHtml(r.contentType)
               THEN LoadFailed(p, ServerlessMessage)
               ELSE /\ pending' = (pending \ {p})
                                  \cup {[p EXCEPT !.at = "errjson", !.status = r.status]}
                    /\ UNCHANGED <<dom, liveMovieState, okRenders>>
          ELSE /\ pending' = (pending \ {p})
                             \cup {[p EXCEPT !.at = "json", !.status = r.status]}
               /\ UNCHANGED <<dom, liveMovieState, okRenders>>
       /\ lastInput' = IF p.id \in {q.id : q \in pending'} THEN NoInput
                       ELSE [kind |-> "reply", rejected |-> r.rejected, status |-> r.status,
                             contentType |-> r.contentType]
  /\ issuedBeforeRefresh' = issuedBeforeRefresh \cap {q.id : q \in pending'}
  /\ UNCHANGED <<titleAttr, loadCalls, refreshCalls, netCalls, pageReady>>
  /\ UNCHANGED notClient

\* errorData.message || errorData.error || `HTTP ${response.status}`
ErrorDataMessage(errorData, status) ==
  IF Truthy(Get(errorData, "message")) THEN Pieces(Get(errorData, "message").s)
  ELSE IF Truthy(Get(errorData, "error")) THEN Pieces(Get(errorData, "error").s)
  ELSE <<"HTTP ", ToString(status)>>

\* what the inner try block throws
ThrownInTry(body, status) ==
  IF ~body.parsed THEN <<"Unexpected token < in JSON at position 0">>
  ELSE IF body.data = Null
  THEN <<"Cannot read properties of null (reading 'message')">>
  ELSE ErrorDataMessage(body.data, status)

\* a catch block that rethrows what it caught
Rethrown(e, status) == e

\* catch (e) { if (e.message.includes('Serverless function')) throw e; throw new Error(...) }
ThrownByCatch(e, status) ==
  IF TextIncludes(e, "Serverless function") THEN e
  ELSE <<"Failed to load data (HTTP ", ToString(status), ")">>

\* response.json() of a non-OK answer settles
ErrorJsonSettle ==
  /\ \E p \in pending, body \in ErrorBodies :
       /\ p.at = "errjson"
       /\ lastInput' = [kind |-> "body", body |-> body]
       /\ LoadFailed(p, ThrownByCatch(ThrownInTry(body, p.status), p.status))
  /\ issuedBeforeRefresh' = issuedBeforeRefresh \cap {q.id : q \in pending'}
  /\ UNCHANGED <<titleAttr, loadCalls, refreshCalls, netCalls, pageReady>>
  /\ UNCHANGED notClient

\* a completion that renders only for the call issued last
MovieJsonSettleIfLatest ==
  /\ \E p \in pending, body \in MovieBodies :
       /\ p.at = "json"
       /\ lastInput' = NoInput
       /\ IF ~body.parsed
          THEN LoadFailed(p, <<"Unexpected token < in JSON at position 0">>)
          ELSE /\ liveMovieState' = SaveToState(liveMovieState, p.movieTitle, body.data)
               /\ dom' = IF p.id = loadCalls THEN UpdateUI(body.data) ELSE dom
               /\ okRenders' = [okRenders EXCEPT
                                   ![p.movieTitle] = Append(@, UpdateUI(body.data))]
               /\ pending' = pending \ {p}
  /\ issuedBeforeRefresh' = issuedBeforeRefresh \cap {q.id : q \in pending'}
  /\ UNCHANGED <<titleAttr, loadCalls, refreshCalls, netCalls, pageReady>>
  /\ UNCHANGED notClient

\* response.json() of an OK answer settles; saveToState and updateUI
MovieJsonSettle ==
  /\ \E p \in pending, body \in MovieBodies :
       /\ p.at = "json"
       /\ lastInput' = NoInput
       /\ IF ~body.parsed
          THEN LoadFailed(p, <<"Unexpected token < in JSON at position 0">>)
          ELSE /\ liveMovieState' = SaveToState(liveMovieState, p.movieTitle, body.data)
               /\ dom' = UpdateUI(body.data)
               /\ okRenders' = [okRenders EXCEPT
                                   ![p.movieTitle] = Append(@, UpdateUI(body.data))]
               /\ pending' = pending \ {p}
  /\ issuedBeforeRefresh' = issuedBeforeRefresh \cap {q.id : q \in pending'}
  /\ UNCHANGED <<titleAttr, loadCalls, refreshCalls, netCalls, pageReady>>
  /\ UNCHANGED notClient

StaticRegions == [id \in RegionIds |-> Region("", "", "")]

InitClient ==
  /\ titleAttr \in PageTitles
  /\ liveMovieState = <<>>
  /\ dom = StaticRegions
  /\ pending = {}
  /\ loadCalls = 0
  /\ refreshCalls = 0
  /\ netCalls = 0
  /\ pageReady = FALSE
  /\ okRenders = [t \in TitleStrings |-> <<>>]
  /\ lastInput = NoInput
  /\ issuedBeforeRefresh = {}

NextClient ==
  \/ DOMContentLoaded
  \/ LoadLiveMovieData
  \/ RefreshMovieData
  \/ ProxyFetchSettle
  \/ ErrorJsonSettle
  \/ MovieJsonSettle

(***************************************************************************)
(* The four programs, each run on its own.                                 *)
(***************************************************************************)
SnapshotOff ==
  /\ env = [CONTENTFUL_SPACE_ID |-> Undef, CONTENTFUL_ACCESS_TOKEN |-> Undef]
  /\ spc = "off"
  /\ fetchCalls = 0
  /\ snapLog = <<>>
  /\ snapThrew = FALSE
  /\ snapInput = [response |-> NoResponse, body |-> Unparsable]
  /\ runs = 0
  /\ fileBefore = NoFile

MergeOff ==
  /\ localFiles = <<>>
  /\ allMovies = <<>>
  /\ debugFile = [fileExists |-> FALSE]
  /\ mpc = "off"
  /\ moviesList = Undef
  /\ lpc = "off"

ProxyOff ==
  /\ event = [queryStringParameters |-> Null]
  /\ nodeEnv = Undef
  /\ ppc = "off"
  /\ omdbQueries = <<>>
  /\ proxyInput = [response |-> NoResponse, body |-> Unparsable]
  /\ proxyResponse = NoAnswer
  /\ proxyThrew = FALSE

ClientOff ==
  /\ titleAttr = Null
  /\ liveMovieState = <<>>
  /\ dom = StaticRegions
  /\ pending = {}
  /\ loadCalls = 0
  /\ refreshCalls = 0
  /\ netCalls = 0
  /\ pageReady = TRUE
  /\ okRenders = [t \in TitleStrings |-> <<>>]
  /\ lastInput = NoInput
  /\ issuedBeforeRefresh = {}

InitSnapshotRun == InitSnapshot /\ MergeOff /\ ProxyOff /\ ClientOff
InitMergeRun == InitMerge /\ SnapshotOff /\ ProxyOff /\ ClientOff
InitProxyRun == InitProxy /\ cmsFile = NoFile /\ SnapshotOff /\ MergeOff /\ ClientOff
InitClientRun == InitClient /\ cmsFile = NoFile /\ SnapshotOff /\ MergeOff /\ ProxyOff

SpecSnapshot == InitSnapshotRun /\ [][NextSnapshot]_vars
SpecMerge == InitMergeRun /\ [][NextMerge]_vars
SpecProxy == InitProxyRun /\ [][NextProxy]_vars
SpecClient == InitClientRun /\ [][NextClient]_vars

\* the page when every promise the code awaits settles: fetch(functionUrl)
\* resolves or rejects, and response.json() resolves or rejects
SpecClientFair ==
  /\ InitClientRun
  /\ [][NextClient]_vars
  /\ WF_vars(ProxyFetchSettle)
  /\ WF_vars(ErrorJsonSettle)
  /\ WF_vars(MovieJsonSettle)


(***************************************************************************)
(* Properties of the in-page cache.                                        *)
(***************************************************************************)
\* a call of loadLiveMovieData that is not part of a refresh, on a page whose
\* title was fetched successfully since the last refresh of that title
LoadStep ==
  /\ loadCalls' = loadCalls + 1
  /\ refreshCalls' = refreshCalls
  /\ Truthy(titleAttr')
  /\ okRenders[titleAttr'.s] # <<>>

\* what the loads that fetched the page's title successfully rendered
Rendered == okRenders[titleAttr'.s]

RefreshStep == refreshCalls' = refreshCalls + 1

\* the cache keys a refresh removes: the title the attribute reads, if an
\* element carries the attribute
RefreshedKeys == IF titleAttr' = Null THEN {} ELSE {TextContent(titleAttr')}

\* the refresh removed the entry of the page's title and no other entry
OnlyOwnEntryRemoved ==
  /\ DOMAIN liveMovieState' = DOMAIN liveMovieState \ RefreshedKeys
  /\ \A k \in DOMAIN liveMovieState' : liveMovieState'[k] = liveMovieState[k]

\* C13 as stated: a refresh removes from the cache exactly the entry of the
\* page's title, leaves every other entry unchanged, and its load issues a new
\* network call.
C13_RefreshFetchesAnew ==
  [][RefreshStep => OnlyOwnEntryRemoved /\ netCalls' = netCalls + 1]_vars

\* C13 amended: a refresh removes from the cache exactly the entry of the
\* page's title and leaves every other entry unchanged; its load issues a new
\* network call when the page's title is non-empty, and no network call when
\* no element carries the attribute or its value is empty.
C13_RefreshFetchesAnewIfTitled ==
  [][RefreshStep
       => /\ OnlyOwnEntryRemoved
          /\ netCalls' = netCalls + (IF Truthy(titleAttr') THEN 1 ELSE 0)]_vars

\* a refresh on the page of Heat after both Heat and heat were loaded: the
\* entry of heat is still there, that of Heat is gone, and a third fetch runs
C13_Witness ==
  /\ refreshCalls = 1
  /\ loadCalls = 3
  /\ netCalls = 3
  /\ titleAttr = Str("Heat")
  /\ DOMAIN liveMovieState = {"heat"}
  /\ okRenders["heat"] # <<>>
  /\ \E p \in pending : pending = {p} /\ p.id = 3 /\ p.movieTitle = "Heat"

\* the calls in flight: the ids of the suspended calls of loadLiveMovieData
InFlight(calls) == {p.id : p \in calls}

\* the regions show fetched data: what updateUI writes
ShowsData(regions) ==
  \A id \in RegionIds : regions[id].fontStyle = "normal" /\ regions[id].color = "inherit"

\* the regions show the error placeholder: what updateUIWithError writes
ShowsError(regions) ==
  /\ \A id \in RegionIds \ {"live-plot"} : regions[id] = Region("N/A", "italic", "#999")
  /\ regions["live-plot"].color = "#d32f2f"

\* C14: a refresh cancels no fetch in flight, and every request that
\* completes or fails writes the regions, whether or not a later request was
\* issued or has completed already: a success leaves the regions showing the
\* data it stored, a failure leaves them showing the error placeholder, so
\* the content displayed is that of the request that completed last.
C14_NoCancellationLastWriteWins ==
  [][/\ RefreshStep => InFlight(pending) \subseteq InFlight(pending')
     /\ \A p \in pending :
          p.id \notin InFlight(pending')
            => \/ /\ p.movieTitle \in DOMAIN liveMovieState'
                  /\ okRenders'[p.movieTitle] # okRenders[p.movieTitle]
                  /\ dom' = UpdateUI(liveMovieState'[p.movieTitle].data)
                  /\ ShowsData(dom')
               \/ /\ liveMovieState' = liveMovieState
                  /\ okRenders' = okRenders
                  /\ ShowsError(dom')]_vars

\* a refresh was issued while the page-ready fetch was in flight; the
\* refresh's request has completed and rendered, the earlier one is still in
\* flight and will complete last
C14_Witness ==
  /\ refreshCalls = 1
  /\ loadCalls = 2
  /\ netCalls = 2
  /\ \E p \in pending : pending = {p} /\ p.id = 1 /\ p.at = "json"
  /\ Len(okRenders["Heat"]) = 1
  /\ dom = okRenders["Heat"][1]
  /\ titleAttr = Str("Heat")

\* the call p ended in this step without storing anything: a failed load
FailedLoad(p) ==
  /\ p.id \notin InFlight(pending')
  /\ okRenders' = okRenders

\* the wordings of the plot region
GenericWording(message) == "Unable to load live data: " \o message

\* the explanation the failure category calls for when the call p ends: p
\* was awaiting fetch() and `answer` ended it (a rejection, or a non-OK HTML
\* page), or p was awaiting the body of an answer with the status p.status
ExpectedExplanation(p, answer) ==
  IF p.at = "fetch"
  THEN IF answer.kind = "reply" /\ answer.rejected THEN GenericWording("Failed to fetch")
       ELSE IF /\ answer.kind = "reply"
               /\ answer.status \notin 200..299
               /\ TextIncludes(answer.contentType, "text/html")
       THEN NetlifyOnlyText
       ELSE "no failure at this step"
  ELSE IF p.status = 404 THEN NotInOmdbText
  ELSE IF p.status \in 200..299
  THEN GenericWording("Unexpected token < in JSON at position 0")
  ELSE GenericWording("Failed to load data (HTTP " \o ToString(p.status) \o ")")

\* C15: a failed load (rejected fetch, non-OK answer, unparsable body) leaves
\* rating, runtime, genre and actors showing "N/A" and the plot showing the
\* explanation of the failure category: the not-found wording for a 404 of
\* the proxy, the endpoint-unavailable wording for a non-OK HTML page, the
\* generic wording otherwise; no region shows the loading placeholder.
C15_FailureExplained ==
  [][\A p \in pending :
       FailedLoad(p)
         => /\ \A id \in RegionIds \ {"live-plot"} : dom'[id].text = "N/A"
            /\ dom'["live-plot"].text = ExpectedExplanation(p, lastInput')
            /\ \A id \in RegionIds : dom'[id].text # UpdateUILoading[id].text]_vars

\* the proxy answered 404 with its JSON envelope and the plot region explains
\* that the movie is not in the database
C15_Witness ==
  /\ pending = {}
  /\ loadCalls = 1
  /\ netCalls = 1
  /\ dom["live-plot"].text = NotInOmdbText
  /\ dom["live-rating"].text = "N/A"

\* a fetch for exactly the title T completed successfully in this step
FetchSucceeded(T) ==
  \E p \in pending :
    /\ p.movieTitle = T
    /\ p.at = "json"
    /\ p.id \notin InFlight(pending')
    /\ Len(okRenders'[T]) = Len(okRenders[T]) + 1

\* a refresh on a page whose attribute reads exactly T
RefreshOf(T) == RefreshStep /\ titleAttr' = Str(T)

\* the entry of T is the same before and after the step
SameEntry(T) ==
  /\ T \in DOMAIN liveMovieState <=> T \in DOMAIN liveMovieState'
  /\ T \in DOMAIN liveMovieState => liveMovieState'[T] = liveMovieState[T]

\* C16: the cache entry of a title T is created only by a fetch for exactly
\* T that completes successfully; it is removed only by a refresh for T; no
\* load that is not a refresh and no failed fetch adds, changes or removes an
\* entry; an entry changes only when a fetch for T completes successfully.
C16_CacheEntryLifecycle ==
  [][\A T \in TitleStrings \cup {""} :
       /\ (T \notin DOMAIN liveMovieState /\ T \in DOMAIN liveMovieState')
            => FetchSucceeded(T)
       /\ (T \in DOMAIN liveMovieState /\ T \notin DOMAIN liveMovieState')
            => RefreshOf(T)
       /\ ~SameEntry(T) => FetchSucceeded(T) \/ RefreshOf(T)
       /\ (loadCalls' = loadCalls + 1 /\ ~RefreshStep) => SameEntry(T)
       /\ (\E p \in pending : FailedLoad(p)) => SameEntry(T)]_vars

\* Heat and heat both have an entry, each with the data its own fetch
\* brought, and a third fetch has failed since without touching them
C16_Witness ==
  /\ DOMAIN liveMovieState = {"Heat", "heat"}
  /\ Get(liveMovieState["Heat"].data, "title") = Str("Heat")
  /\ Get(liveMovieState["heat"].data, "title") = Undef
  /\ netCalls = 3
  /\ pending = {}
  /\ ShowsError(dom)

\* the DOMContentLoaded listener runs on a page without a lookup key: no
\* element carries the attribute, or its value is empty
PageReadyWithoutKey == ~pageReady /\ pageReady' /\ ~Truthy(titleAttr)

\* C19 as stated: on a page without a lookup key the page-ready load issues
\* no network call, adds no cache entry and modifies none of the five regions.
C19_NoKeyNoEffect ==
  [][PageReadyWithoutKey
       => /\ netCalls' = netCalls
          /\ pending' = pending
          /\ liveMovieState' = liveMovieState
          /\ dom' = dom]_vars

\* C19 amended: on a page without a lookup key the page-ready load issues no
\* network call and adds no cache entry; when no element carries the
\* attribute it modifies no region, and when the attribute's value is empty
\* it sets rating, runtime, genre and actors to "N/A" and the plot to the
\* generic explanation "Unable to load live data: Movie title not specified".
C19_NoKeyNoFetch ==
  [][PageReadyWithoutKey
       => /\ netCalls' = netCalls
          /\ pending' = pending
          /\ liveMovieState' = liveMovieState
          /\ titleAttr = Null => dom' = dom /\ loadCalls' = loadCalls
          /\ titleAttr = Str("")
               => /\ ShowsError(dom')
                  /\ dom'["live-plot"].text = GenericWording("Movie title not specified")]_vars

\* the page is ready, its attribute is empty: no fetch, no entry, and the
\* regions show the error placeholder
C19_Witness ==
  /\ pageReady
  /\ titleAttr = Str("")
  /\ loadCalls = 1
  /\ netCalls = 0
  /\ liveMovieState = <<>>
  /\ dom["live-plot"].text = GenericWording("Movie title not specified")

\* a call of loadLiveMovieData, from a refresh or not, on a page with a title
TitledLoad == loadCalls' = loadCalls + 1 /\ Truthy(titleAttr')

\* some region shows the loading placeholder
ShowsLoading(regions) == \E id \in RegionIds : regions[id].text = "Loading..."

\* C21: a load that misses the cache issues its network call with all five
\* regions showing the loading placeholder, written before the call; a load
\* that hits the cache issues no call and never writes the placeholder: the
\* regions show the cached data.
C21_LoadingOnlyOnMiss ==
  [][TitledLoad
       => IF titleAttr'.s \in DOMAIN liveMovieState'
          THEN /\ netCalls' = netCalls
               /\ pending' = pending
               /\ ~ShowsLoading(dom')
               /\ dom' = UpdateUI(liveMovieState'[titleAttr'.s].data)
          ELSE /\ netCalls' = netCalls + 1
               /\ \A id \in RegionIds : dom'[id] = Region("Loading...", "italic", "#666")
               /\ \E p \in pending' \ pending :
                    p.at = "fetch" /\ p.movieTitle = titleAttr'.s]_vars

\* the page-ready load of Heat missed the cache: its fetch is in flight and
\* the five regions show the loading placeholder
C21_Witness ==
  /\ titleAttr = Str("Heat")
  /\ loadCalls = 1
  /\ netCalls = 1
  /\ liveMovieState = <<>>
  /\ \E p \in pending : pending = {p} /\ p.at = "fetch"
  /\ \A id \in RegionIds : dom[id].text = "Loading..."

\* the message of an error envelope: its message field, else its error
\* field, else "HTTP <status>"
EnvelopeMessage(envelope, status) ==
  IF "message" \in DOMAIN envelope /\ Truthy(envelope.message) THEN Pieces(envelope.message.s)
  ELSE IF "error" \in DOMAIN envelope /\ Truthy(envelope.error) THEN Pieces(envelope.error.s)
  ELSE <<"HTTP ", ToString(status)>>

\* C22: when a non-OK answer has a body that parses as an error envelope, the
\* regions show what the error renderer makes of the envelope's message (its
\* message field, else its error field, else "HTTP <status>"); the text
\* "Failed to load data (HTTP <status>)" shows only when the body does not
\* parse.
C22_EnvelopeMessageRendered ==
  [][\A p \in pending :
       (p.at = "errjson" /\ FailedLoad(p) /\ lastInput'.kind = "body")
         => /\ (lastInput'.body.parsed /\ lastInput'.body.data # Null)
                 => dom' = UpdateUIWithError(EnvelopeMessage(lastInput'.body.data, p.status))
            /\ dom'["live-plot"].text
                 = GenericWording("Failed to load data (HTTP " \o ToString(p.status) \o ")")
                 => ~lastInput'.body.parsed]_vars


\* the call p stored its data in the cache in this step
StoredBy(p) ==
  /\ p.at = "json"
  /\ p.id \notin InFlight(pending')
  /\ okRenders'[p.movieTitle] # okRenders[p.movieTitle]
  /\ p.movieTitle \in DOMAIN liveMovieState'

\* C23: after a refresh of the title T the cache never again holds data of a
\* fetch issued before that refresh: no call that was in flight for T when T
\* was refreshed stores an entry afterwards, so an entry of T present after
\* the refresh was stored by a fetch issued at or after it.
C23_NoStaleEntryAfterRefresh ==
  [][\A p \in pending : StoredBy(p) => p.id \notin issuedBeforeRefresh]_vars


\* C24: whenever no fetch is in flight, the regions and the cache agree for
\* the page's title T: if the cache holds an entry of T the five regions show
\* that entry's data, and if the regions show the error placeholder the cache
\* holds no entry of T.
C24_DisplayAgreesWithCache ==
  (pageReady /\ pending = {} /\ Truthy(titleAttr))
    => /\ titleAttr.s \in DOMAIN liveMovieState
            => dom = UpdateUI(liveMovieState[titleAttr.s].data)
       /\ ShowsError(dom) => titleAttr.s \notin DOMAIN liveMovieState


\* C25: when every issued fetch completes or fails, the loading placeholder
\* is never final: regions showing it eventually show fetched data or the
\* error placeholder, and once all fetches have settled no region shows the
\* loading placeholder.
C25_LoadingNeverFinal ==
  /\ ShowsLoading(dom) ~> (ShowsData(dom) \/ ShowsError(dom))
  /\ [](pending = {} => ~ShowsLoading(dom))

\* two overlapping fetches, the second issued by a refresh, have both settled,
\* the last of them by failing: the regions show the error placeholder
C25_Witness ==
  /\ refreshCalls = 1
  /\ netCalls = 2
  /\ loadCalls = 2
  /\ pending = {}
  /\ ShowsError(dom)
  /\ ~ShowsLoading(dom)

=============================================================================
